---- MODULE Spec2Model ----
(***************************************************************************)
(* ssl-cert-monitor-lambda: the certificate validator (src/src/cert.rs),   *)
(* the monitor lambda's handler (src/src/main.rs) and the reporter         *)
(* lambda's aggregator (src/ssl-cert-reporter-lambda/src/main.rs).         *)
(*                                                                         *)
(* Three specifications share the variables:                               *)
(*   SpecValidator  one Validator and one call of validate_certificate or  *)
(*                  validate_certificates on it (as the unit tests do);    *)
(*   SpecMonitor    one invocation of the monitor's function_handler;      *)
(*   SpecReporter   one invocation of the reporter's function_handler.     *)
(* Time is counted in ticks; a day is TicksPerDay ticks, so that instants  *)
(* that are no whole number of days apart exist.                           *)
(***************************************************************************)
EXTENDS Integers, Sequences, FiniteSets, TLC

VARIABLES
    now,             \* Validator.now
    max_expiration,  \* Validator.max_expiration (days)
    op,              \* the Validator method called last ("new": none yet)
    arg,             \* the certificate blobs passed to that call
    vres,            \* what that call returned
    evaluated,       \* how many times that call ran validate_certificate
    domains,         \* monitor: the domain list parse_domains returned
    pos,             \* monitor: index of the next domain the map visits
    statuses,        \* monitor: the Status records collected so far
    outcomes,        \* monitor: what validate_domain returned for each of them
    pc,              \* position of the running handler
    req_statuses,    \* reporter: Request.statuses
    response         \* reporter: what function_handler returned

vars == <<now, max_expiration, op, arg, vres, evaluated, domains, pos, statuses, outcomes, pc, req_statuses, response>>

validatorCallVars == <<op, arg, vres, evaluated>>
monitorVars == <<domains, pos, statuses, outcomes>>
reporterVars == <<req_statuses, response>>

----------------------------------------------------------------------------
(* Bounds *)

MaxTime == 3
MaxDays == 1
TicksPerDay == 2
MaxChain == 2
MaxDomains == 2
MaxStatuses == 3

(* max_expiration as function_handler fixes it *)
MonitorMaxExpiration == 10

Time == 0..MaxTime

RECURSIVE SeqsUpTo(_, _)
SeqsUpTo(S, n) == IF n = 0 THEN {<<>>} ELSE LET shorter == SeqsUpTo(S, n - 1) IN shorter \cup {Append(s, x) : s \in {t \in shorter : Len(t) = n - 1}, x \in S}

----------------------------------------------------------------------------
(* error.rs *)

MonitorError(kind, msg) == [kind |-> kind, msg |-> msg]

NoError == [kind |-> "", msg |-> ""]

(* the thiserror Display of MonitorError *)
to_string(error) == CASE error.kind = "Network" -> "network error: " \o error.msg [] error.kind = "Tls" -> "TLS error: " \o error.msg [] error.kind = "Certificate" -> "certificate error: " \o error.msg [] error.kind = "Config" -> "config error: " \o error.msg [] error.kind = "Expired" -> "certificate expired" [] OTHER -> "general error: " \o error.msg

(* Result<bool, MonitorError> *)
Ok(v) == [tag |-> "Ok", val |-> v, err |-> NoError]

Err(e) == [tag |-> "Err", val |-> FALSE, err |-> e]

(* the call unwound by a panic: no value is returned *)
Panicked == [tag |-> "Panic", val |-> FALSE, err |-> NoError]

NoResult == [tag |-> "None", val |-> FALSE, err |-> NoError]

----------------------------------------------------------------------------
(* cert.rs: the certificate blobs and the Validator *)

(* A CertificateDer blob: whether X509Certificate::from_der decodes it, and *)
(* the validity it then carries.  The code never compares not_before with   *)
(* not_after, so every pair occurs.                                          *)
Certificate == [der_ok : {TRUE}, not_before : Time, not_after : Time] \cup {[der_ok |-> FALSE, not_before |-> 0, not_after |-> 0]}

Chains == SeqsUpTo(Certificate, MaxChain)

(* the text of the decoder's error, err.to_string() *)
DerDiagnostic == "malformed DER"

(* self.now + chrono::Days::new(self.max_expiration) *)
required_expiry_date == now + max_expiration * TicksPerDay

validate_certificate_strict(certificate_blob) == IF ~certificate_blob.der_ok THEN Err(MonitorError("Certificate", DerDiagnostic)) ELSE IF now < certificate_blob.not_before THEN Err(MonitorError("Certificate", "Certificate is before")) ELSE IF now > certificate_blob.not_after THEN Err(MonitorError("Certificate", "Certificate is after")) ELSE IF required_expiry_date > certificate_blob.not_after THEN Ok(FALSE) ELSE Ok(TRUE)

validate_certificate(certificate_blob) ==
    IF ~certificate_blob.der_ok
    THEN Err(MonitorError("Certificate", DerDiagnostic))
    ELSE IF now < certificate_blob.not_before
    THEN Err(MonitorError("Certificate", "Certificate is before"))
    ELSE IF now > certificate_blob.not_after
    THEN Err(MonitorError("Certificate", "Certificate is after"))
    ELSE IF required_expiry_date >= certificate_blob.not_after
    THEN Ok(FALSE)
    ELSE Ok(TRUE)

(* The loop of validate_certificates from its i-th blob on, with the       *)
(* accumulator `result` and the count of validate_certificate calls made:  *)
(*     result = result && self.validate_certificate(cert)?;                *)
(* && does not evaluate its right operand when result is false; ? returns  *)
(* the error at once.                                                      *)
RECURSIVE fold_certificates(_, _, _, _)
fold_certificates(certificate_blobs, i, result, calls) ==
    IF i > Len(certificate_blobs)
    THEN [ret |-> Ok(result), calls |-> calls]
    ELSE IF ~result
    THEN fold_certificates(certificate_blobs, i + 1, FALSE, calls)
    ELSE LET r == validate_certificate(certificate_blobs[i])
         IN IF r.tag = "Err"
            THEN [ret |-> r, calls |-> calls + 1]
            ELSE fold_certificates(certificate_blobs, i + 1, r.val, calls + 1)

validate_certificates_from_true(certificate_blobs) == IF Len(certificate_blobs) < 2 THEN [ret |-> Err(MonitorError("Certificate", "No certificates in chain")), calls |-> 0] ELSE fold_certificates(certificate_blobs, 1, TRUE, 0)

validate_certificates_min_one(certificate_blobs) == IF Len(certificate_blobs) < 1 THEN [ret |-> Err(MonitorError("Certificate", "No certificates in chain")), calls |-> 0] ELSE fold_certificates(certificate_blobs, 1, FALSE, 0)

(* returns the Result and, beside it, the number of certificates evaluated *)
validate_certificates(certificate_blobs) ==
    IF Len(certificate_blobs) < 2
    THEN [ret |-> Err(MonitorError("Certificate", "No certificates in chain")), calls |-> 0]
    ELSE fold_certificates(certificate_blobs, 1, FALSE, 0)

----------------------------------------------------------------------------
(* SpecValidator: Validator::new(now, max_expiration), then one call *)

MonitorIdle == /\ domains = <<>>
               /\ pos = 1
               /\ statuses = <<>>
               /\ outcomes = <<>>

ReporterIdle == /\ req_statuses = <<>>
                /\ response = NoResult

ValidatorIdle == /\ op = "new"
                 /\ arg = <<>>
                 /\ vres = NoResult
                 /\ evaluated = 0

InitValidator ==
    /\ now \in Time
    /\ max_expiration \in 0..MaxDays
    /\ ValidatorIdle
    /\ MonitorIdle
    /\ ReporterIdle
    /\ pc = "validator"

CallValidateCertificate ==
    /\ pc = "validator"
    /\ op = "new"
    /\ \E cert \in Certificate :
        /\ op' = "validate_certificate"
        /\ arg' = <<cert>>
        /\ vres' = validate_certificate(cert)
        /\ evaluated' = 1
    /\ UNCHANGED <<now, max_expiration, monitorVars, pc, reporterVars>>

CallValidateCertificates ==
    /\ pc = "validator"
    /\ op = "new"
    /\ \E blobs \in Chains :
        LET r == validate_certificates(blobs)
        IN /\ op' = "validate_certificates"
           /\ arg' = blobs
           /\ vres' = r.ret
           /\ evaluated' = r.calls
    /\ UNCHANGED <<now, max_expiration, monitorVars, pc, reporterVars>>

NextValidator == CallValidateCertificate \/ CallValidateCertificates

SpecValidator == InitValidator /\ [][NextValidator]_vars

----------------------------------------------------------------------------
(* cert.rs: read_certificates and validate_domain *)

Domain == {"", "bad host", "a.example", "b.example"}

(* domain.to_string().try_into(): a rustls ServerName is a DNS name or an *)
(* IP address; the empty string and a name with a space are neither.     *)
is_server_name(domain) == domain \notin {"", "bad host"}

(* the texts of the rustls and std::io errors *)
TlsDiagnostic == "unsupported configuration"

IoDiagnostic == "connection reset"

(* The certificates the monitored servers present: undecodable, valid     *)
(* from 0 to 0, or valid from 0 to MaxTime.                               *)
ServedCertificate == {c \in Certificate : ~c.der_ok \/ (c.not_before = 0 /\ c.not_after \in {0, MaxTime})}

NoPeerCertificates == [some |-> FALSE, chain |-> <<>>]

PeerCertificates == {NoPeerCertificates} \cup {[some |-> TRUE, chain |-> c] : c \in SeqsUpTo(ServedCertificate, MaxChain)}

(* What the peer and the network do to one connection: whether            *)
(* ClientConnection::new, TcpStream::connect, write_all (which drives the *)
(* handshake) and flush succeed, how read_to_end ends, and what           *)
(* peer_certificates() then holds.                                        *)
Healthy(read, peer) == [new_ok |-> TRUE, connect_ok |-> TRUE, write_ok |-> TRUE, flush_ok |-> TRUE, read |-> read, peer |-> peer]

Net == {Healthy(r, p) : r \in {"Ok", "UnexpectedEof"}, p \in PeerCertificates} \cup {[Healthy("Ok", NoPeerCertificates) EXCEPT !.new_ok = FALSE], [Healthy("Ok", NoPeerCertificates) EXCEPT !.connect_ok = FALSE], [Healthy("Ok", NoPeerCertificates) EXCEPT !.write_ok = FALSE], [Healthy("Ok", NoPeerCertificates) EXCEPT !.flush_ok = FALSE], Healthy("Other", NoPeerCertificates)}

(* Result<Vec<CertificateDer>, MonitorError>, or the panic of an unwrap() *)
OkChain(chain) == [tag |-> "Ok", val |-> chain, err |-> NoError]

ErrChain(e) == [tag |-> "Err", val |-> <<>>, err |-> e]

PanickedChain == [tag |-> "Panic", val |-> <<>>, err |-> NoError]

read_certificates(domain, net) ==
    IF ~is_server_name(domain)
    THEN PanickedChain
    ELSE IF ~net.new_ok
    THEN ErrChain(MonitorError("Network", TlsDiagnostic))
    ELSE IF ~net.connect_ok
    THEN PanickedChain
    ELSE IF ~net.write_ok
    THEN ErrChain(MonitorError("Network", "Write err: " \o IoDiagnostic))
    ELSE IF ~net.flush_ok
    THEN ErrChain(MonitorError("Network", "Flush err: " \o IoDiagnostic))
    ELSE IF net.read \notin {"Ok", "UnexpectedEof"}
    THEN ErrChain(MonitorError("Network", "Read err: " \o IoDiagnostic))
    ELSE IF ~net.peer.some
    THEN ErrChain(MonitorError("Certificate", "No certificates"))
    ELSE OkChain(net.peer.chain)

validate_domain(domain, net) ==
    LET certificate_blobs == read_certificates(domain, net)
    IN IF certificate_blobs.tag = "Panic"
       THEN Panicked
       ELSE IF certificate_blobs.tag = "Err"
       THEN Err(certificate_blobs.err)
       ELSE validate_certificates(certificate_blobs.val).ret

----------------------------------------------------------------------------
(* main.rs: the monitor's function_handler *)

Status(domain, valid, error) == [domain |-> domain, valid |-> valid, error |-> error]

to_status_valid_from_result(domain, result) == IF result.tag = "Ok" THEN Status(domain, result.val, "") ELSE Status(domain, FALSE, to_string(result.err))

(* The closure of the map: the Ok arm, written Ok(()), sets valid: true   *)
(* whatever the Ok carries; the Err arm sets valid: false and the text.  *)
to_status(domain, result) ==
    IF result.tag = "Ok"
    THEN Status(domain, TRUE, "")
    ELSE Status(domain, FALSE, to_string(result.err))

InitMonitor ==
    /\ now \in Time
    /\ max_expiration = MonitorMaxExpiration
    /\ ValidatorIdle
    /\ domains \in SeqsUpTo(Domain, MaxDomains)
    /\ pos = 1
    /\ statuses = <<>>
    /\ outcomes = <<>>
    /\ ReporterIdle
    /\ pc = "map"

(* one domain of domains.into_iter().map(..).collect() *)
CheckDomain ==
    /\ pc = "map"
    /\ pos <= Len(domains)
    /\ \E net \in Net :
        LET result == validate_domain(domains[pos], net)
        IN IF result.tag = "Panic"
           THEN /\ pc' = "panicked"
                /\ UNCHANGED <<pos, statuses, outcomes>>
           ELSE /\ statuses' = Append(statuses, to_status(domains[pos], result))
                /\ outcomes' = Append(outcomes, result)
                /\ pos' = pos + 1
                /\ pc' = pc
    /\ UNCHANGED <<now, max_expiration, validatorCallVars, domains, reporterVars>>

(* Ok(Response { req_id, statuses }) *)
Respond ==
    /\ pc = "map"
    /\ pos > Len(domains)
    /\ pc' = "returned"
    /\ UNCHANGED <<now, max_expiration, validatorCallVars, monitorVars, reporterVars>>

NextMonitor == CheckDomain \/ Respond

SpecMonitor == InitMonitor /\ [][NextMonitor]_vars

----------------------------------------------------------------------------
(* ssl-cert-reporter-lambda/src/main.rs *)

ReportedStatus == [domain : {"foobar", "baz"}, valid : BOOLEAN, error : {"", "oops"}]

Valid == [tag |-> "Valid", message |-> ""]

Invalid(message) == [tag |-> "Invalid", message |-> message]

Digit(d) == CASE d = 0 -> "0" [] d = 1 -> "1" [] d = 2 -> "2" [] d = 3 -> "3" [] d = 4 -> "4" [] d = 5 -> "5" [] d = 6 -> "6" [] d = 7 -> "7" [] d = 8 -> "8" [] OTHER -> "9"

(* the Display of a usize *)
RECURSIVE format_usize(_)
format_usize(n) == IF n < 10 THEN Digit(n) ELSE format_usize(n \div 10) \o Digit(n % 10)

(* [String]::join *)
RECURSIVE join(_, _)
join(lines, sep) == IF lines = <<>> THEN "" ELSE IF Len(lines) = 1 THEN lines[1] ELSE lines[1] \o sep \o join(Tail(lines), sep)

RECURSIVE concat(_)
concat(lines) == IF lines = <<>> THEN "" ELSE lines[1] \o concat(Tail(lines))

is_invalid(status) == ~status.valid

format_status(status) == "Domain " \o status.domain \o " (" \o status.error \o ")"

aggregate_filter_valid(statuses_in) == LET kept == SelectSeq(statuses_in, LAMBDA status : status.valid) IN IF kept = <<>> THEN Ok(Valid) ELSE Ok(Invalid("Found " \o format_usize(Len(kept)) \o " issues.\n" \o join([i \in 1..Len(kept) |-> format_status(kept[i])], "\n")))

aggregate_line_terminated(statuses_in) == LET kept == SelectSeq(statuses_in, is_invalid) IN IF kept = <<>> THEN Ok(Valid) ELSE Ok(Invalid("Found " \o format_usize(Len(kept)) \o " issues.\n" \o concat([i \in 1..Len(kept) |-> format_status(kept[i]) \o "\n"])))

aggregate(statuses_in) ==
    LET invalid_statuses == SelectSeq(statuses_in, is_invalid)
    IN IF invalid_statuses = <<>>
       THEN Ok(Valid)
       ELSE Ok(Invalid("Found " \o format_usize(Len(invalid_statuses)) \o " issues.\n" \o join([i \in 1..Len(invalid_statuses) |-> format_status(invalid_statuses[i])], "\n")))

InitReporter ==
    /\ now = 0
    /\ max_expiration = 0
    /\ ValidatorIdle
    /\ MonitorIdle
    /\ req_statuses \in SeqsUpTo(ReportedStatus, MaxStatuses)
    /\ response = NoResult
    /\ pc = "received"

(* let report = aggregate(event.payload.statuses)?; Ok(Response { report }) *)
ReporterHandler ==
    /\ pc = "received"
    /\ LET report == aggregate(req_statuses)
       IN response' = IF report.tag = "Ok" THEN Ok([report |-> report.val]) ELSE report
    /\ pc' = "responded"
    /\ UNCHANGED <<now, max_expiration, validatorCallVars, monitorVars, req_statuses>>

NextReporter == ReporterHandler

SpecReporter == InitReporter /\ [][NextReporter]_vars

----------------------------------------------------------------------------
(* Properties of the Validator (checked under SpecValidator) *)

(* the certificate decodes and now lies in [not_before, not_after] *)
InWindow(c) == c.der_ok /\ c.not_before <= now /\ now <= c.not_after

(* ... and it still has more than max_expiration days to live *)
SatisfiesPolicy(c) == InWindow(c) /\ now + max_expiration * TicksPerDay < c.not_after

(* the certificate decodes and now lies outside [not_before, not_after] *)
OutOfBounds(c) == c.der_ok /\ (now < c.not_before \/ now > c.not_after)

ChainCall == op = "validate_certificates"

IsCertificateError(r) == r.tag = "Err" /\ r.err.kind = "Certificate"

(* C1: for a chain of length >= 2 in which every certificate decodes and  *)
(* is inside its validity window, validate_certificates returns Ok(true)  *)
(* if every certificate satisfies the policy window and Ok(false) if at   *)
(* least one is a soft miss.                                              *)
C1_ChainIsAndOfCertificates ==
    (ChainCall /\ Len(arg) >= 2 /\ \A i \in 1..Len(arg) : InWindow(arg[i]))
        => vres = Ok(\A i \in 1..Len(arg) : SatisfiesPolicy(arg[i]))

(* C2: for a chain of length >= 2 in which some certificate, at any       *)
(* position, is outside its validity window, validate_certificates fails  *)
(* with a Certificate error and returns neither Ok(true) nor Ok(false).   *)
C2_OutOfBoundsIsError ==
    (ChainCall /\ Len(arg) >= 2 /\ \E i \in 1..Len(arg) : OutOfBounds(arg[i]))
        => IsCertificateError(vres)

(* C6: for a decodable certificate validate_certificate returns the       *)
(* "before" error if now < not_before, else the "after" error if          *)
(* now > not_after, else Ok(false) if now + max_expiration days >=        *)
(* not_after, else Ok(true).                                              *)
C6_CertificateCascade ==
    (op = "validate_certificate" /\ arg[1].der_ok) =>
        LET c == arg[1]
            deadline == now + max_expiration * TicksPerDay
        IN /\ now < c.not_before
                => vres = Err(MonitorError("Certificate", "Certificate is before"))
           /\ (now >= c.not_before /\ now > c.not_after)
                => vres = Err(MonitorError("Certificate", "Certificate is after"))
           /\ (now >= c.not_before /\ now <= c.not_after /\ deadline >= c.not_after)
                => vres = Ok(FALSE)
           /\ (now >= c.not_before /\ now <= c.not_after /\ deadline < c.not_after)
                => vres = Ok(TRUE)

(* the boundary of C6: now = not_after with no days required is Ok(false) *)
C6_Witness ==
    /\ op = "validate_certificate"
    /\ arg[1].der_ok
    /\ arg[1].not_before < now
    /\ arg[1].not_after = now
    /\ max_expiration = 0
    /\ vres = Ok(FALSE)

(* C7: for a chain of length 0 or 1 validate_certificates fails with a    *)
(* Certificate error and evaluates no certificate, whatever the chain     *)
(* holds.                                                                 *)
C7_ShortChainIsError ==
    (ChainCall /\ Len(arg) < 2) => (IsCertificateError(vres) /\ evaluated = 0)

(* a one-certificate chain whose certificate satisfies the policy window *)
C7_Witness ==
    /\ ChainCall
    /\ Len(arg) = 1
    /\ SatisfiesPolicy(arg[1])
    /\ vres = Err(MonitorError("Certificate", "No certificates in chain"))
    /\ evaluated = 0

(* C10: for a chain of two whose first certificate satisfies the policy   *)
(* window and whose second is expired, validate_certificates returns      *)
(* Ok(false).                                                             *)
C10_ExpiredPairIsOkFalse ==
    (ChainCall /\ Len(arg) = 2 /\ SatisfiesPolicy(arg[1]) /\ arg[2].der_ok /\ now > arg[2].not_after)
        => vres = Ok(FALSE)

C10_Witness ==
    /\ ChainCall
    /\ Len(arg) = 2
    /\ SatisfiesPolicy(arg[1])
    /\ arg[2].der_ok
    /\ arg[2].not_before <= arg[2].not_after
    /\ now > arg[2].not_after
    /\ max_expiration = 0
    /\ vres = Ok(FALSE)

----------------------------------------------------------------------------
(* Properties of the monitor's handler (checked under SpecMonitor) *)

(* C3: whatever fails while one domain is checked becomes that domain's   *)
(* status record: the handler never aborts, and it returns one record per *)
(* input domain, in input order.                                          *)
C3_BatchRunsToCompletion ==
    /\ pc # "panicked"
    /\ pc = "returned" =>
        /\ Len(statuses) = Len(domains)
        /\ \A i \in 1..Len(domains) : statuses[i].domain = domains[i]

(* C4: the record of a domain is {domain, valid: result, error: ""} when  *)
(* validate_domain returned Ok(result) and {domain, valid: false, error:  *)
(* the error's message} when it returned Err.                             *)
C4_StatusFollowsOutcome ==
    \A i \in 1..Len(statuses) :
        /\ outcomes[i].tag = "Ok"
            => statuses[i] = [domain |-> domains[i], valid |-> outcomes[i].val, error |-> ""]
        /\ outcomes[i].tag = "Err"
            => statuses[i] = [domain |-> domains[i], valid |-> FALSE, error |-> to_string(outcomes[i].err)]

(* C5: in every record the handler builds, valid = true implies an empty  *)
(* error and valid = false implies a non-empty error.                     *)
C5_ValidIffNoError ==
    \A i \in 1..Len(statuses) :
        /\ statuses[i].valid => statuses[i].error = ""
        /\ ~statuses[i].valid => statuses[i].error # ""

(* a returned batch holding a valid and an invalid record *)
C5_Witness ==
    /\ pc = "returned"
    /\ \E i, j \in 1..Len(statuses) :
        /\ statuses[i].valid
        /\ outcomes[i] = Ok(FALSE)
        /\ ~statuses[j].valid
        /\ outcomes[j].tag = "Err"

----------------------------------------------------------------------------
(* Properties of the reporter's aggregate (checked under SpecReporter) *)

C8_Numeral(n) == <<"1", "2", "3", "4", "5", "6", "7", "8", "9">>[n]

C8_InvalidCount(s) == Cardinality({i \in 1..Len(s) : ~s[i].valid})

(* the lines of the invalid entries of s, in the order of s; `first` tells *)
(* that no line has been written yet                                       *)
RECURSIVE C8_Lines(_, _)
C8_Lines(s, first) ==
    IF s = <<>>
    THEN ""
    ELSE IF Head(s).valid
    THEN C8_Lines(Tail(s), first)
    ELSE (IF first THEN "" ELSE "\n") \o "Domain " \o Head(s).domain \o " (" \o Head(s).error \o ")" \o C8_Lines(Tail(s), FALSE)

(* C8: when some entry has valid = false, the report is Invalid(message), *)
(* message being "Found N issues." and a newline, then one line           *)
(* "Domain <domain> (<error>)" per invalid entry, in input order, joined  *)
(* by newlines with none trailing; N counts the invalid entries and the   *)
(* valid entries contribute nothing.                                      *)
C8_InvalidMessage ==
    (pc = "responded" /\ C8_InvalidCount(req_statuses) > 0) =>
        /\ response.tag = "Ok"
        /\ response.val.report = Invalid("Found " \o C8_Numeral(C8_InvalidCount(req_statuses)) \o " issues.\n" \o C8_Lines(req_statuses, TRUE))

(* two invalid entries around a valid one *)
C8_Witness ==
    /\ pc = "responded"
    /\ req_statuses = <<[domain |-> "foobar", valid |-> FALSE, error |-> "oops"], [domain |-> "baz", valid |-> TRUE, error |-> ""], [domain |-> "baz", valid |-> FALSE, error |-> ""]>>
    /\ response.val.report = Invalid("Found 2 issues.\nDomain foobar (oops)\nDomain baz ()")

(* C9: aggregate returns a report for every status sequence, the empty    *)
(* one too, and the report is Valid exactly when no entry has             *)
(* valid = false.                                                         *)
C9_ValidIffNoInvalid ==
    pc = "responded" =>
        /\ response.tag = "Ok"
        /\ response.val.report.tag \in {"Valid", "Invalid"}
        /\ response.val.report.tag = "Valid" <=> \A i \in 1..Len(req_statuses) : req_statuses[i].valid

(* the empty sequence *)
C9_Witness ==
    /\ pc = "responded"
    /\ req_statuses = <<>>
    /\ response = Ok([report |-> Valid])

====
